---- MODULE Spec2Model ----
(***************************************************************************)
(* A model of chroma's Section<W, H, D> (src/src/lib.rs): a palette-based, *)
(* bit-packed three dimensional container.  A 64-bit word is modelled as   *)
(* the set of its set bit positions (0 = least significant), so that the   *)
(* shifts, masks and two-word splits of the codec are computed as the code *)
(* computes them, at the real word width.                                  *)
(***************************************************************************)
EXTENDS Integers, Sequences, FiniteSets, TLC

\* ------------------------------------------------------------ instantiation
\* The model is of Section<2, 3, 4>: 24 cells, so that at width 3 the data is
\* two words long and cell 21 (bits 63 .. 65) spans both.
W == 2
H == 3
D == 4

\* ------------------------------------------------------------------ bounds
\* new(b) is explored for every b in 0 .. MaxInitBits.
MaxInitBits == 2
\* Items written are 0 .. MaxItem (the code only compares items for equality).
MaxItem == 3
\* At most MaxOps calls of set_item in one run.
MaxOps == 3
\* The codec is called directly at every width 0 .. MaxWidth.
MaxWidth == 7

\* --------------------------------------------------------------- constants
VOLUME == W * H * D
BITS_PER_WORD == 64
\* The value the model gives an expression whose evaluation panics.
PANIC == -1

\* ------------------------------------------------------------- u64 words
WordBits == 0 .. (BITS_PER_WORD - 1)
ZeroWord == {}
\* w << k on u64, 0 <= k < 64: the bits shifted past bit 63 are lost.
Shl(w, k) == {i + k : i \in {j \in w : j + k < BITS_PER_WORD}}
\* w >> k on u64, 0 <= k < 64.
Shr(w, k) == {i - k : i \in {j \in w : j >= k}}
\* !w on u64.
Not(w) == WordBits \ w
\* (1u64 << n).wrapping_sub(1): the shift amount wraps at the word width.
LowMask(n) == 0 .. ((n % BITS_PER_WORD) - 1)
\* n as u64, for a palette index n < 2^31.
AsU64(n) == {i \in 0 .. 30 : (n \div (2 ^ i)) % 2 = 1}
\* w as usize, for a word already masked to a few low bits.
RECURSIVE AsUsize(_)
AsUsize(w) ==
    IF w = {} THEN 0
    ELSE LET i == CHOOSE j \in w : TRUE IN (2 ^ i) + AsUsize(w \ {i})

\* ------------------------------------------------------ coordinate indexer
CheckPositionInBounds(pos) ==
    ~(pos[1] < 0 \/ pos[1] >= W \/ pos[2] < 0 \/ pos[2] >= H
        \/ pos[3] < 0 \/ pos[3] >= D)

\* A variant of ItemIndex with the stride of x taken from the wrong pair of
\* dimensions (W * H for H * D).
ItemIndexWrongStride(pos) == pos[1] * (W * H) + pos[2] * D + pos[3]

\* item_index, for a position that passed the bounds check.
ItemIndex(pos) == pos[1] * (H * D) + pos[2] * D + pos[3]

\* split_index: <<word_index, bit_in_word>>.
SplitIndex(item_index, bits) ==
    LET bit_offset == item_index * bits
    IN <<bit_offset \div BITS_PER_WORD, bit_offset % BITS_PER_WORD>>

\* A variant of DataLen that divides without rounding up.
DataLenFloor(bits) == (bits * VOLUME) \div BITS_PER_WORD

\* The length of data for a width: ceil(bits * VOLUME / 64).
DataLen(bits) == (bits * VOLUME + BITS_PER_WORD - 1) \div BITS_PER_WORD

ZeroData(n) == [k \in 1 .. n |-> ZeroWord]

\* ------------------------------------------------------------------ codec
\* palette_index: data[word_index] and data[word_index + 1] are checked
\* slice indexings, which panic past the end of data.
PaletteIndex(d, bits, item_index) ==
    LET s == SplitIndex(item_index, bits)
        word_index == s[1]
        bit_in_word == s[2]
    IN  IF word_index >= Len(d) THEN PANIC
        ELSE IF bit_in_word + bits > BITS_PER_WORD
        THEN IF word_index + 1 >= Len(d) THEN PANIC
             ELSE LET remaining_bits_n == bit_in_word + bits - BITS_PER_WORD
                      next_word == d[word_index + 2]
                      item == Shr(d[word_index + 1], bit_in_word)
                                \cup Shl(next_word, bits - remaining_bits_n)
                  IN AsUsize(item \cap LowMask(bits))
        ELSE AsUsize(Shr(d[word_index + 1], bit_in_word) \cap LowMask(bits))

\* set_item_ex reaches data through get_unchecked_mut: whether this call
\* touches a word past the end of data (undefined behaviour).
ExOutOfRange(d, bits, item_index) ==
    LET s == SplitIndex(item_index, bits)
        bits_in_first_word == BITS_PER_WORD - s[2]
    IN  \/ s[1] >= Len(d)
        \/ bits > bits_in_first_word /\ s[1] + 1 >= Len(d)

\* A variant of UpdateWord that stores the new bits over the whole word
\* instead of clearing and setting the bits of one cell.
UpdateWordOverwrite(d, word_index, clear_mask, set_bits) ==
    IF word_index < Len(d)
    THEN [d EXCEPT ![word_index + 1] = set_bits]
    ELSE d

\* One read-modify-write of data[word_index]: clear the bits of clear_mask,
\* then set those of set_bits.  A word past the end is not part of data.
UpdateWord(d, word_index, clear_mask, set_bits) ==
    IF word_index < Len(d)
    THEN [d EXCEPT ![word_index + 1] = (@ \cap Not(clear_mask)) \cup set_bits]
    ELSE d

\* set_item_ex: the data after encoding palette_index at item_index.
SetItemEx(d, bits, item_index, palette_index) ==
    LET s == SplitIndex(item_index, bits)
        word_index == s[1]
        bit_in_word == s[2]
        bits_in_first_word == BITS_PER_WORD - bit_in_word
    IN  IF bits <= bits_in_first_word
        THEN LET item_mask == LowMask(bits)
             IN UpdateWord(d, word_index, Shl(item_mask, bit_in_word),
                    Shl(AsU64(palette_index) \cap item_mask, bit_in_word))
        ELSE LET bits_in_second_word == bits - bits_in_first_word
                 mask_for_first_word == LowMask(bits_in_first_word)
                 mask_for_second_word == LowMask(bits_in_second_word)
                 d1 == UpdateWord(d, word_index,
                          Shl(mask_for_first_word, bit_in_word),
                          Shl(AsU64(palette_index) \cap mask_for_first_word,
                              bit_in_word))
             IN UpdateWord(d1, word_index + 1, mask_for_second_word,
                    Shr(AsU64(palette_index), bits_in_first_word)
                        \cap mask_for_second_word)

\* ----------------------------------------------------------------- repack
\* The second loop of repack: re-encode cells lo .. hi, in order.  (The range
\* is halved to keep the evaluation shallow; the order of the writes is that
\* of the loop.)
RECURSIVE RepackFill(_, _, _, _, _)
RepackFill(d, new_bits, all_palette_indices, lo, hi) ==
    IF lo > hi THEN d
    ELSE IF lo = hi
    THEN SetItemEx(d, new_bits, lo, all_palette_indices[lo])
    ELSE LET mid == (lo + hi) \div 2
             half == RepackFill(d, new_bits, all_palette_indices, lo, mid)
         IN  \* the test evaluates the first half before the second starts
             IF Len(half) >= 0
             THEN RepackFill(half, new_bits, all_palette_indices, mid + 1, hi)
             ELSE half

\* A variant of Repack that only resizes data to the new length (the old
\* words kept, zero words added) and does not re-encode the cells.
RepackResizesOnly(d, bits, new_bits_per_item) ==
    [panic |-> FALSE,
     data |-> [k \in 1 .. DataLen(new_bits_per_item) |->
                 IF k <= Len(d) THEN d[k] ELSE ZeroWord],
     bits |-> new_bits_per_item,
     ub |-> FALSE]

\* repack: [panic, data, bits, ub].  A panic while decoding under the old
\* width leaves data and bits_per_item as they were.
Repack(d, bits, new_bits_per_item) ==
    LET all_palette_indices ==
            [i \in 0 .. (VOLUME - 1) |-> PaletteIndex(d, bits, i)]
        fresh == ZeroData(DataLen(new_bits_per_item))
    IN  IF \E i \in 0 .. (VOLUME - 1) : all_palette_indices[i] = PANIC
        THEN [panic |-> TRUE, data |-> d, bits |-> bits, ub |-> FALSE]
        ELSE [panic |-> FALSE,
              data |-> RepackFill(fresh, new_bits_per_item,
                                  all_palette_indices, 0, VOLUME - 1),
              bits |-> new_bits_per_item,
              ub |-> \E i \in 0 .. (VOLUME - 1) :
                        ExOutOfRange(fresh, new_bits_per_item, i)]

\* -------------------------------------------------------------- write path
\* A variant of Position that returns the last matching index (rposition).
PositionOfLast(pal, item) ==
    IF \E k \in 1 .. Len(pal) : pal[k] = item
    THEN (CHOOSE k \in 1 .. Len(pal) :
            pal[k] = item /\ \A j \in (k + 1) .. Len(pal) : pal[j] # item) - 1
    ELSE -1

\* A variant of Position that stops one entry short of the end of palette.
PositionMissesLast(pal, item) ==
    IF \E k \in 1 .. (Len(pal) - 1) : pal[k] = item
    THEN (CHOOSE k \in 1 .. (Len(pal) - 1) :
            pal[k] = item /\ \A j \in 1 .. (k - 1) : pal[j] # item) - 1
    ELSE -1

\* palette.iter().position(|&id| id == item): the first index, 0-based, or
\* -1 for None.
Position(pal, item) ==
    IF \E k \in 1 .. Len(pal) : pal[k] = item
    THEN (CHOOSE k \in 1 .. Len(pal) :
            pal[k] = item /\ \A j \in 1 .. (k - 1) : pal[j] # item) - 1
    ELSE -1

\* A variant of NeedsRepack that widens as soon as the palette is full, one
\* entry before the width stops sufficing.
NeedsRepackEager(bits, new_index) == 2 ^ bits <= new_index + 1

\* A variant of NeedsRepack with the comparison off by one (< for <=).
NeedsRepackStrict(bits, new_index) == 2 ^ bits < new_index

\* Whether a new palette index forces a repack: 1 << bits_per_item <= new_index.
NeedsRepack(bits, new_index) == 2 ^ bits <= new_index

\* set_item_unchecked on a section with fields d, pal, bits:
\* [panic, data, palette, bits, idx, repacked, ub].
SetItemUnchecked(d, pal, bits, pos, item) ==
    LET found == Position(pal, item)
        item_index == ItemIndex(pos)
    IN  IF found >= 0
        THEN [panic |-> FALSE,
              data |-> SetItemEx(d, bits, item_index, found),
              palette |-> pal, bits |-> bits, idx |-> found,
              repacked |-> FALSE,
              ub |-> ExOutOfRange(d, bits, item_index)]
        ELSE LET new_index == Len(pal)
                 pal1 == Append(pal, item)
             IN  IF NeedsRepack(bits, new_index)
                 THEN LET r == Repack(d, bits, bits + 1)
                      IN  IF r.panic
                          THEN [panic |-> TRUE, data |-> d, palette |-> pal1,
                                bits |-> bits, idx |-> new_index,
                                repacked |-> FALSE, ub |-> FALSE]
                          ELSE [panic |-> FALSE,
                                data |-> SetItemEx(r.data, r.bits, item_index,
                                                   new_index),
                                palette |-> pal1, bits |-> r.bits,
                                idx |-> new_index, repacked |-> TRUE,
                                ub |-> r.ub \/ ExOutOfRange(r.data, r.bits,
                                                            item_index)]
                 ELSE [panic |-> FALSE,
                       data |-> SetItemEx(d, bits, item_index, new_index),
                       palette |-> pal1, bits |-> bits, idx |-> new_index,
                       repacked |-> FALSE,
                       ub |-> ExOutOfRange(d, bits, item_index)]

\* item_unchecked: the set of results the call can produce.  A decode that
\* panics yields PANIC; palette.get_unchecked past the end of palette is
\* undefined behaviour: any item, or a crash.
ItemUnchecked(d, pal, bits, pos) ==
    LET palette_index == PaletteIndex(d, bits, ItemIndex(pos))
    IN  IF palette_index = PANIC THEN {PANIC}
        ELSE IF palette_index < Len(pal) THEN {pal[palette_index + 1]}
        ELSE (0 .. MaxItem) \cup {PANIC}

\* is_empty: every word of data is zero.
IsEmptyData(d) == \A k \in 1 .. Len(d) : d[k] = ZeroWord

\* ------------------------------------------------------------ state machine
VARIABLES
    data,           \* Section::data, a sequence of words
    palette,        \* Section::palette
    bits_per_item,  \* Section::bits_per_item
    status,         \* "ok", or how the program ended: "panic", "abort"
    last,           \* the call that has just returned, with its result
    prev,           \* the fields as they were before that call
    written,        \* cell -> the item last stored by a successful set_item
    first_writes,   \* the distinct non-zero items stored by successful
                    \* set_item calls, in the order of their first write
    init_bits,      \* the width the section was created with
    nops            \* the number of set_item calls made

vars == <<data, palette, bits_per_item, status, last, prev, written,
          first_writes, init_bits, nops>>

InitBits == 0 .. MaxInitBits
Items == 0 .. MaxItem
Cells == 0 .. (VOLUME - 1)
Origin == <<0, 0, 0>>
AllPositions == {<<x, y, z>> : x \in 0 .. (W - 1), y \in 0 .. (H - 1),
                               z \in 0 .. (D - 1)}
\* The positions calls are made with: the first cell, three neighbouring
\* cells at the end of the section (the middle one spans two words at
\* width 3), and one position outside of each of the six faces.
InBoundsInputs == {Origin, <<W - 1, H - 1, D - 4>>, <<W - 1, H - 1, D - 3>>,
                   <<W - 1, H - 1, D - 2>>}
OutOfBoundsInputs == {<<-1, 0, 0>>, <<W, 0, 0>>, <<0, -1, 0>>, <<0, H, 0>>,
                      <<0, 0, -1>>, <<0, 0, D>>}
InputPositions == InBoundsInputs \cup OutOfBoundsInputs
\* The arguments set_item is called with: every item at the positions in
\* bounds, one item at those out of bounds (the check comes before any use
\* of the item).
SetItemInputs == (InBoundsInputs \X Items) \cup (OutOfBoundsInputs \X {1})

Fields == [data |-> data, palette |-> palette, bits |-> bits_per_item]

Call(op, pos, item, res, ret, err, idx, repacked, ub) ==
    [op |-> op, pos |-> pos, item |-> item, res |-> res, ret |-> ret,
     err |-> err, idx |-> idx, repacked |-> repacked, ub |-> ub]

NoCall == Call("none", Origin, 0, "none", 0, Origin, 0, FALSE, FALSE)

\* Section::new(b): the state after construction.
New(b) ==
    /\ data = ZeroData(DataLen(b))
    /\ palette = [k \in 1 .. (2 ^ b) |-> 0]
    /\ bits_per_item = b
    /\ status = "ok"
    /\ last = Call("new", Origin, b, "Ok", 0, Origin, 0, FALSE, FALSE)
    /\ prev = [data |-> ZeroData(DataLen(b)),
               palette |-> [k \in 1 .. (2 ^ b) |-> 0], bits |-> b]
    /\ written = [c \in Cells |-> 0]
    /\ first_writes = <<>>
    /\ init_bits = b
    /\ nops = 0

Init == \E b \in InitBits : New(b)

\* The caller takes the result of the call that returned and goes on.
Return ==
    /\ status = "ok"
    /\ last.op # "none"
    /\ last' = NoCall
    /\ prev' = Fields
    /\ UNCHANGED <<data, palette, bits_per_item, status, written,
                   first_writes, init_bits, nops>>

Idle == status = "ok" /\ last.op = "none"

\* set_item(pos, item).
SetItem(pos, item) ==
    /\ Idle
    /\ nops < MaxOps
    /\ nops' = nops + 1
    /\ prev' = Fields
    /\ UNCHANGED init_bits
    /\ IF ~CheckPositionInBounds(pos)
       THEN /\ last' = Call("set_item", pos, item, "OutOfBounds", 0, pos, 0,
                            FALSE, FALSE)
            /\ UNCHANGED <<data, palette, bits_per_item, status, written,
                           first_writes>>
       ELSE LET r == SetItemUnchecked(data, palette, bits_per_item, pos, item)
            IN  /\ data' = r.data
                /\ palette' = r.palette
                /\ bits_per_item' = r.bits
                \* an unchecked write past the end of data either goes
                \* unnoticed or ends the program
                /\ status' \in (IF r.panic THEN {"panic"}
                                ELSE IF r.ub THEN {"ok", "abort"}
                                ELSE {"ok"})
                /\ last' = Call("set_item", pos, item,
                                IF status' = "ok" THEN "Ok" ELSE status',
                                0, Origin, r.idx, r.repacked, r.ub)
                /\ written' = IF status' = "ok"
                              THEN [written EXCEPT ![ItemIndex(pos)] = item]
                              ELSE written
                /\ first_writes' =
                       IF /\ status' = "ok"
                          /\ item # 0
                          /\ \A k \in 1 .. Len(first_writes) :
                                 first_writes[k] # item
                       THEN Append(first_writes, item)
                       ELSE first_writes

\* item(pos).
Item(pos) ==
    /\ Idle
    /\ prev' = Fields
    /\ IF ~CheckPositionInBounds(pos)
       THEN /\ last' = Call("item", pos, 0, "OutOfBounds", 0, pos, 0, FALSE,
                            FALSE)
            /\ status' = status
       ELSE \E v \in ItemUnchecked(data, palette, bits_per_item, pos) :
                /\ status' = IF v = PANIC THEN "panic" ELSE "ok"
                /\ last' = Call("item", pos, 0,
                                IF v = PANIC THEN "panic" ELSE "Ok",
                                v, Origin, 0, FALSE, FALSE)
    /\ UNCHANGED <<data, palette, bits_per_item, written, first_writes,
                   init_bits, nops>>

\* is_empty().
IsEmpty ==
    /\ Idle
    /\ prev' = Fields
    /\ last' = Call("is_empty", Origin, 0,
                    IF IsEmptyData(data) THEN "true" ELSE "false",
                    0, Origin, 0, FALSE, FALSE)
    /\ UNCHANGED <<data, palette, bits_per_item, status, written,
                   first_writes, init_bits, nops>>

Next ==
    \/ Return
    \/ \E in \in SetItemInputs : SetItem(in[1], in[2])
    \/ \E pos \in InputPositions : Item(pos)
    \/ IsEmpty

Spec == Init /\ [][Next]_vars

\* ----------------------------------------------- the codec, called directly
\* The widths, and the palette indices, the codec is called with.
CodecWidths == 0 .. MaxWidth
CodecIndices(bits) ==
    {idx \in {0, 1, (2 ^ bits) \div 3, (2 ^ bits) \div 2, (2 ^ bits) - 1} :
        idx < 2 ^ bits}

\* The words of a section whose cell c holds palette index cell_index[c],
\* written bit by bit: bit j of word k is bit (p % bits) of the index of cell
\* p \div bits, with p = 64 * (k - 1) + j; the bits after the last cell are 0.
Packed(bits, cell_index) ==
    [k \in 1 .. DataLen(bits) |->
        {j \in WordBits :
            LET p == BITS_PER_WORD * (k - 1) + j
            IN  /\ p < bits * VOLUME
                /\ (cell_index[p \div bits] \div (2 ^ (p % bits))) % 2 = 1}]

\* The contents the codec is called on: every cell 0, every cell the largest
\* index of the width, and cell c holding c modulo 2^bits.
CodecFills(bits) ==
    {[c \in Cells |-> 0], [c \in Cells |-> (2 ^ bits) - 1],
     [c \in Cells |-> c % (2 ^ bits)]}

\* A section of width bits with a full palette (that of new(bits) for
\* bits <= 1, else that of new(1) after 2^bits - 2 distinct items) whose cells
\* hold cell_index.
Filled(bits, cell_index) ==
    LET pal == [k \in 1 .. (2 ^ bits) |-> IF k <= 2 THEN 0 ELSE k - 2]
    IN  /\ data = Packed(bits, cell_index)
        /\ palette = pal
        /\ bits_per_item = bits
        /\ status = "ok"
        /\ last = NoCall
        /\ prev = [data |-> Packed(bits, cell_index), palette |-> pal,
                   bits |-> bits]
        /\ written = [c \in Cells |-> pal[cell_index[c] + 1]]
        /\ first_writes = [k \in 1 .. (Len(pal) - 2) |-> k]
        /\ init_bits = IF bits = 0 THEN 0 ELSE 1
        /\ nops = 0

CodecInit == \E bits \in CodecWidths : \E f \in CodecFills(bits) :
                 Filled(bits, f)

\* set_item_ex(item_index(pos), palette_index) followed by
\* palette_index(item_index(pos)); last.ret is the index read back.
EncodeDecode(pos, palette_index) ==
    /\ Idle
    /\ nops = 0
    /\ nops' = 1
    /\ prev' = Fields
    /\ LET item_index == ItemIndex(pos)
           ub == ExOutOfRange(data, bits_per_item, item_index)
           d == SetItemEx(data, bits_per_item, item_index, palette_index)
           read == PaletteIndex(d, bits_per_item, item_index)
       IN  /\ data' = d
           /\ status' \in (IF ub THEN {"abort"} ELSE {})
                          \cup {IF read = PANIC THEN "panic" ELSE "ok"}
           /\ last' = Call("set_item_ex", pos, 0,
                           IF status' = "ok" THEN "Ok" ELSE status',
                           read, Origin, palette_index, FALSE, ub)
    /\ UNCHANGED <<palette, bits_per_item, written, first_writes, init_bits>>

CodecNext ==
    \E pos \in AllPositions : \E palette_index \in CodecIndices(bits_per_item) :
        EncodeDecode(pos, palette_index)

CodecSpec == CodecInit /\ [][CodecNext]_vars

\* ------------------------------------------------------------------ claims
\* The statement of the bounds check: each coordinate within its dimension.
InBounds(pos) ==
    /\ 0 <= pos[1] /\ pos[1] < W
    /\ 0 <= pos[2] /\ pos[2] < H
    /\ 0 <= pos[3] /\ pos[3] < D

\* The call that has just returned is set_item, and it returned Ok.
SetItemOk == last.op = "set_item" /\ last.res = "Ok"
LastCell == ItemIndex(last.pos)
\* The cell that spans both words at width 3, and its two neighbours.
SpanCell == ItemIndex(<<W - 1, H - 1, D - 3>>)
CellBefore == ItemIndex(<<W - 1, H - 1, D - 4>>)
CellAfter == ItemIndex(<<W - 1, H - 1, D - 2>>)
\* What item(pos) returns in the current state and in the one before the call.
ItemNow(pos) == ItemUnchecked(data, palette, bits_per_item, pos)
ItemBefore(pos) == ItemUnchecked(prev.data, prev.palette, prev.bits, pos)
IndexNow(c) == PaletteIndex(data, bits_per_item, c)
IndexBefore(c) == PaletteIndex(prev.data, prev.bits, c)

\* C1 (as claimed): for every width b that new accepts, after any sequence of
\* calls, set_item(p, v) at a position in bounds returns Ok and item(p) then
\* returns Ok(v).
C1_RoundTrip ==
    (last.op = "set_item" /\ InBounds(last.pos))
        => /\ last.res = "Ok"
           /\ ItemNow(last.pos) = {last.item}

\* C2: the repack made by a set_item leaves the decoded palette index of
\* every cell as it was under the old width; after the set_item every cell
\* other than the written one still decodes to its old index, and every cell
\* reads back the item last written to it (0 if never written).
C2_RepackPreservesMapping ==
    (SetItemOk /\ last.repacked)
        => /\ LET r == Repack(prev.data, prev.bits, prev.bits + 1)
              IN  /\ ~r.panic /\ r.bits = bits_per_item
                  /\ \A c \in Cells :
                        PaletteIndex(r.data, r.bits, c) = IndexBefore(c)
           /\ \A c \in Cells : c # LastCell => IndexNow(c) = IndexBefore(c)
           /\ \A pos \in AllPositions : ItemNow(pos) = {written[ItemIndex(pos)]}

\* C2's case: a second repack (width 2 to 3) that moves a non-zero index of
\* another cell into the two-word range of the spanning cell.
C2_Witness ==
    /\ SetItemOk /\ last.repacked
    /\ init_bits = 1 /\ bits_per_item = 3
    /\ LastCell # SpanCell
    /\ written[SpanCell] # 0

\* C3: a successful set_item(p1, v) leaves item(p2) of every other position
\* p2 in bounds as it was before the call.
C3_NonInterference ==
    SetItemOk
        => \A pos \in AllPositions :
              pos # last.pos => ItemNow(pos) = ItemBefore(pos)

\* C3's case: a write of a new item to the spanning cell, at width 3, while
\* both of its neighbours (one in each word) hold non-zero items.
C3_Witness ==
    /\ SetItemOk
    /\ bits_per_item = 3
    /\ LastCell = SpanCell
    /\ last.item # 0
    /\ written[CellBefore] # 0
    /\ written[CellAfter] # 0
    /\ palette # prev.palette

\* C4 (as claimed): item(pos) and set_item(pos, v) return Err(OutOfBounds(pos))
\* exactly when a coordinate lies outside its dimension, and succeed
\* otherwise; a rejected set_item leaves data, palette and bits_per_item alone.
C4_BoundsRejection ==
    (last.op \in {"set_item", "item"})
        => /\ (last.res = "OutOfBounds") <=> ~InBounds(last.pos)
           /\ last.res = "OutOfBounds" => last.err = last.pos
           /\ InBounds(last.pos) => last.res = "Ok"
           /\ (last.op = "set_item" /\ last.res = "OutOfBounds")
                 => Fields = prev

\* C5: a section fresh from new(b) is empty; it is not empty right after a
\* successful set_item of a non-zero item; and it is empty again whenever
\* every cell has been set back to 0.
C5_Emptiness ==
    /\ last.op = "new" => IsEmptyData(data)
    /\ (SetItemOk /\ last.item # 0) => ~IsEmptyData(data)
    /\ (status = "ok" /\ \A c \in Cells : written[c] = 0) => IsEmptyData(data)
    /\ (last.op = "is_empty" /\ \A c \in Cells : written[c] = 0)
          => last.res = "true"

\* C5's case: the write of 0 that empties the section again, after the
\* palette has grown and a repack has happened.
C5_Witness ==
    /\ SetItemOk /\ last.item = 0
    /\ \A c \in Cells : written[c] = 0
    /\ IndexBefore(LastCell) > 0
    /\ bits_per_item > init_bits
    /\ Len(palette) > 2 ^ init_bits + 1

\* C6: set_item(p, v) made again right after a successful set_item(p, v)
\* changes nothing: no palette entry, no repack, no bit of data; and a
\* set_item of the item that the cell already holds leaves the fields alone.
C6_Idempotence ==
    SetItemOk
        => /\ LET again == SetItemUnchecked(data, palette, bits_per_item,
                                             last.pos, last.item)
              IN  /\ ~again.panic /\ ~again.repacked
                  /\ again.data = data
                  /\ again.palette = palette
                  /\ again.bits = bits_per_item
           /\ (ItemBefore(last.pos) = {last.item}
                 /\ IndexBefore(LastCell) = last.idx) => Fields = prev

\* C6's case: the second of two equal writes of a non-zero item, made to a
\* section that has been repacked.
C6_Witness ==
    /\ SetItemOk /\ last.item # 0
    /\ ItemBefore(last.pos) = {last.item}
    /\ Fields = prev
    /\ bits_per_item > init_bits

FirstIndexOf(pal, item) ==
    CHOOSE k \in 0 .. (Len(pal) - 1) :
        pal[k + 1] = item /\ \A j \in 0 .. (k - 1) : pal[j + 1] # item
Occurs(pal, item) == \E k \in 1 .. Len(pal) : pal[k] = item

\* C8: a successful set_item(p, v) stores the index of the first palette
\* entry equal to v and changes neither palette nor bits_per_item; with no
\* such entry it appends v at k = the old palette.len(), repacks to
\* bits_per_item + 1 exactly when k >= 2^bits_per_item, and the cell then
\* decodes to k; bits_per_item rises by 0 or 1.
C8_WritePath ==
    SetItemOk
        => /\ IF Occurs(prev.palette, last.item)
              THEN /\ last.idx = FirstIndexOf(prev.palette, last.item)
                   /\ palette = prev.palette
                   /\ bits_per_item = prev.bits
                   /\ ~last.repacked
              ELSE /\ last.idx = Len(prev.palette)
                   /\ palette = Append(prev.palette, last.item)
                   /\ last.repacked <=> Len(prev.palette) >= 2 ^ prev.bits
                   /\ bits_per_item
                        = prev.bits + (IF last.repacked THEN 1 ELSE 0)
           /\ ~last.ub => IndexNow(LastCell) = last.idx
           /\ bits_per_item \in {prev.bits, prev.bits + 1}

\* C8's case: an append that repacks, for the second time, a section which
\* already holds non-zero cells.
C8_Witness ==
    /\ SetItemOk /\ last.repacked
    /\ prev.bits > init_bits
    /\ \E c \in Cells : c # LastCell /\ written[c] # 0

\* C9 (as claimed): for every initial width b, the first set_item of a
\* non-zero item on a section from new(b) appends it at index 2^b and
\* repacks, leaving bits_per_item = b + 1 and palette.len() = 2^b + 1; the
\* writes of 0 before it change neither palette nor bits_per_item.
C9_FirstNonZeroWrite ==
    (last.op = "set_item" /\ InBounds(last.pos)
        /\ Len(prev.palette) = 2 ^ init_bits)
        => IF last.item # 0
           THEN /\ last.res = "Ok"
                /\ last.idx = 2 ^ init_bits
                /\ last.repacked
                /\ bits_per_item = init_bits + 1
                /\ Len(palette) = 2 ^ init_bits + 1
           ELSE /\ palette = prev.palette
                /\ bits_per_item = prev.bits

\* C10: after every call that completes, 2^bits_per_item >= palette.len().
C10_Capacity == status = "ok" => 2 ^ bits_per_item >= Len(palette)

\* C10's case: a palette that has grown and is filled to the capacity of the
\* width, right after a set_item appended its last entry.
C10_Witness ==
    /\ SetItemOk
    /\ Len(palette) = Len(prev.palette) + 1
    /\ Len(palette) = 2 ^ bits_per_item
    /\ bits_per_item > init_bits

\* C11 (as claimed): for every width b that new accepts, b = 0 included, no
\* decode or encode of a cell, in set_item, item or repack, reaches a word at
\* or past data.len(): no call ends in the panic of a checked indexing, and
\* no unchecked write lands outside of data.
C11_NoAccessPastData ==
    /\ status = "ok"
    /\ ~last.ub
    /\ \A c \in Cells :
          /\ IndexNow(c) # PANIC
          /\ ~ExOutOfRange(data, bits_per_item, c)

\* What C12 says of one encode followed by a decode of the same cell: the
\* index read back is the one stored, and every bit of data outside of the
\* cell's bit range [i * bits, i * bits + bits) is as it was.
RoundTripAndBitsKept ==
    /\ last.res = "Ok"
    /\ last.ret = last.idx
    /\ Len(data) = Len(prev.data)
    /\ \A k \in 1 .. Len(data) : \A j \in WordBits :
          LET p == BITS_PER_WORD * (k - 1) + j
          IN  (p < LastCell * bits_per_item
                  \/ p >= LastCell * bits_per_item + bits_per_item)
                  => ((j \in data[k]) <=> (j \in prev.data[k]))

\* C12 (as claimed): for every width b, every cell i and every idx < 2^b,
\* set_item_ex(i, idx) followed by palette_index(i) yields idx and changes no
\* bit of data outside of the cell's bit range, whether the range lies in one
\* word or spans two.
C12_CodecRoundTrip == (last.op = "set_item_ex") => RoundTripAndBitsKept

\* The same for the widths b >= 1.
C12_CodecRoundTripFromWidth1 ==
    (last.op = "set_item_ex" /\ bits_per_item >= 1) => RoundTripAndBitsKept

\* A round trip of a cell that spans two words, over contents that are not
\* all zero.
C12_SpanningRoundTrip ==
    /\ last.op = "set_item_ex"
    /\ last.res = "Ok"
    /\ ((LastCell * bits_per_item) % BITS_PER_WORD) + bits_per_item
           > BITS_PER_WORD
    /\ ~IsEmptyData(prev.data)
    /\ last.idx = (2 ^ bits_per_item) \div 3

\* The assertion at the head of set_item_ex: palette_index < 1 << bits_per_item.
IndexFits(bits, palette_index) == palette_index < 2 ^ bits

\* C13: on every call of set_item_ex, from set_item or from the loop of
\* repack, the palette index passed fits the width in force at that call: the
\* index set_item stores fits the width after the call, and when the call
\* repacked, so does the old index of every cell that repack re-encoded.
C13_EncoderIndexFits ==
    (last.op = "set_item" /\ InBounds(last.pos) /\ last.res # "panic")
        => /\ IndexFits(bits_per_item, last.idx)
           /\ last.repacked
                 => \A c \in Cells : IndexFits(bits_per_item, IndexBefore(c))
           \* so the bits stored are the index itself
           /\ (~last.ub) => IndexNow(LastCell) = last.idx

\* A set_item that repacked for the second time, over cells holding non-zero
\* indices, and stored the first index that needs the new width.
C13_Witness ==
    /\ SetItemOk
    /\ last.repacked
    /\ prev.bits > init_bits
    /\ last.idx = 2 ^ prev.bits
    /\ \E c \in Cells : c # LastCell /\ IndexBefore(c) = 2 ^ prev.bits - 1

\* C14: the palette only grows at its end.  Every call leaves the entries
\* the palette had in place; only set_item appends, one entry at most, the
\* item written, and only when the palette did not hold it (a repack in the
\* same call adds or changes nothing more); palette[0] is 0 in every state.
C14_PaletteAppendOnly ==
    /\ Len(palette) >= 1
    /\ palette[1] = 0
    /\ Len(prev.palette) <= Len(palette)
    /\ Len(palette) <= Len(prev.palette) + 1
    /\ \A k \in 1 .. Len(prev.palette) : palette[k] = prev.palette[k]
    /\ Len(palette) > Len(prev.palette)
          => /\ last.op = "set_item"
             /\ InBounds(last.pos)
             /\ palette[Len(palette)] = last.item
             /\ ~Occurs(prev.palette, last.item)

\* A set_item that appended to a palette already holding written items,
\* without a repack.
C14_Witness ==
    /\ SetItemOk
    /\ Len(prev.palette) > 2 ^ init_bits
    /\ palette = Append(prev.palette, last.item)
    /\ ~last.repacked

\* C15: in every state data has exactly ceil(bits_per_item * VOLUME / 64)
\* words: enough for the bits of all cells, and not one word more.
C15_DataSize ==
    /\ BITS_PER_WORD * Len(data) >= bits_per_item * VOLUME
    /\ BITS_PER_WORD * (Len(data) - 1) < bits_per_item * VOLUME

\* A set_item whose repack made data one word longer (the cells no longer
\* fill whole words).
C15_Witness ==
    /\ SetItemOk
    /\ last.repacked
    /\ Len(data) = Len(prev.data) + 1
    /\ (bits_per_item * VOLUME) % BITS_PER_WORD # 0

\* C16: item_index maps every position (x, y, z) in bounds to
\* x * (H * D) + y * D + z, a cell in 0 .. VOLUME - 1; no two positions in
\* bounds share a cell and every cell is that of a position in bounds.  The
\* cell an encode at a position writes is the one of that formula.
C16_FlatIndexing ==
    /\ \A pos \in AllPositions :
          /\ InBounds(pos)
          /\ ItemIndex(pos) = pos[1] * (H * D) + pos[2] * D + pos[3]
          /\ 0 <= ItemIndex(pos) /\ ItemIndex(pos) < VOLUME
          /\ \A other \in AllPositions :
                ItemIndex(other) = ItemIndex(pos) => other = pos
    /\ \A c \in Cells : \E pos \in AllPositions : ItemIndex(pos) = c
    /\ (last.op = "set_item_ex" /\ last.res = "Ok")
          => IndexNow(last.pos[1] * (H * D) + last.pos[2] * D + last.pos[3])
                = last.idx

\* An encode at a position whose three coordinates all count, followed in
\* memory by a cell that holds another index.
C16_Witness ==
    /\ last.op = "set_item_ex"
    /\ last.res = "Ok"
    /\ last.pos = <<W - 1, H - 1, D - 3>>
    /\ LastCell = VOLUME - 3
    /\ IndexNow(LastCell) = last.idx
    /\ IndexNow(LastCell + 1) # last.idx
    /\ IndexNow(LastCell + 1) # 0

\* C17 (as claimed): in every state every cell decodes to a palette index,
\* and that index is below palette.len().
C17_CellsDecodeInPalette ==
    \A c \in Cells : 0 <= IndexNow(c) /\ IndexNow(c) < Len(palette)

\* The same for the sections created with a width b >= 1.
C17_CellsDecodeInPaletteFromWidth1 ==
    init_bits >= 1 => C17_CellsDecodeInPalette

\* In every state, a decode that yields an index yields one below
\* palette.len(): the unchecked lookup of item_unchecked is never out of range.
C17_LookupInRange ==
    \A c \in Cells : IndexNow(c) # PANIC => IndexNow(c) < Len(palette)

\* C18: while the section is in use, bits_per_item is the smallest width, not
\* below the initial b0, that addresses the palette: either it is still b0
\* and the palette has its initial 2^b0 entries, or it is above b0 and
\* 2^(bits_per_item - 1) < palette.len() <= 2^bits_per_item.  A set_item
\* repacks only when the index it appends does not fit the old width.
C18_MinimalWidth ==
    status = "ok"
        => /\ \/ /\ bits_per_item = init_bits
                 /\ Len(palette) = 2 ^ init_bits
              \/ /\ bits_per_item > init_bits
                 /\ 2 ^ (bits_per_item - 1) < Len(palette)
                 /\ Len(palette) <= 2 ^ bits_per_item
           /\ (SetItemOk /\ last.repacked)
                 => /\ bits_per_item = prev.bits + 1
                    /\ Len(prev.palette) >= 2 ^ prev.bits

\* A set_item that filled the palette to 2^bits_per_item entries above the
\* initial width, without a repack.
C18_Witness ==
    /\ SetItemOk
    /\ ~last.repacked
    /\ bits_per_item > init_bits
    /\ Len(palette) = Len(prev.palette) + 1
    /\ Len(palette) = 2 ^ bits_per_item

\* C19: while the section is in use, the palette is 2^b0 zero entries (b0 the
\* initial width) followed by the distinct non-zero items stored by
\* successful set_item calls, in the order of their first write, each once:
\* palette.len() = 2^b0 + the number of those items.  A set_item of 0 or of
\* an item stored before leaves the palette as it is.
C19_PaletteContents ==
    status = "ok"
        => /\ palette = [k \in 1 .. (2 ^ init_bits) |-> 0] \o first_writes
           /\ \A k \in 1 .. Len(first_writes) :
                 /\ first_writes[k] # 0
                 /\ \A j \in 1 .. (k - 1) : first_writes[j] # first_writes[k]
           /\ Len(palette) = 2 ^ init_bits
                 + Cardinality({first_writes[k] : k \in 1 .. Len(first_writes)})
           /\ (SetItemOk /\ (last.item = 0 \/ Occurs(prev.palette, last.item)))
                 => palette = prev.palette

\* A cell holding the second item written is overwritten with the first one:
\* the palette keeps its two items.
C19_Witness ==
    /\ SetItemOk
    /\ Len(first_writes) = 2
    /\ last.item = first_writes[1]
    /\ IndexBefore(LastCell) = 2 ^ init_bits + 1
    /\ IndexNow(LastCell) = 2 ^ init_bits
    /\ palette = prev.palette

====
